---------------------------- MODULE Spec2Model ----------------------------
(***************************************************************************)
(* The remote-signing transaction pipeline of saturn-sdk-v2:               *)
(* Saturn::create_core and Call::sign_and_submit (src/src/lib.rs) with     *)
(* generate_payload and submit_wait_inblock_and_get_event                  *)
(* (src/src/js_signer.rs).                                                 *)
(*                                                                         *)
(* Every run of sign_and_submit is a process that walks through the body   *)
(* of the function one statement at a time.  The node (account nonce,      *)
(* pool, blocks, events) and the JavaScript signer are the environment:    *)
(* their answers are chosen nondeterministically among the outcomes the    *)
(* code distinguishes.                                                     *)
(***************************************************************************)
EXTENDS Integers, Sequences, FiniteSets, TLC

(***************************************************************************)
(* Bounds of the model.                                                    *)
(***************************************************************************)
\* Call values that Saturn::create_core hands out in one behaviour.
MaxCalls == 1
\* Length of the event list of a block.
MaxEvents == 2

\* The two pipelines of the nonce-race scenario.
Runs == {"r1", "r2"}

(***************************************************************************)
(* Bytes and hex strings.  A byte string is a sequence of 0..255, a text   *)
(* string is a sequence of one-character strings.                          *)
(***************************************************************************)
Rep(x, n) == [i \in 1..n |-> x]

HexChars == <<"0", "1", "2", "3", "4", "5", "6", "7",
              "8", "9", "a", "b", "c", "d", "e", "f">>

\* hex::encode: two lower-case digits per byte, high nibble first.
HexEncode(bytes) ==
    [i \in 1..(2 * Len(bytes)) |->
        IF i % 2 = 1 THEN HexChars[(bytes[(i + 1) \div 2] \div 16) + 1]
                     ELSE HexChars[(bytes[i \div 2] % 16) + 1]]

\* to_hex and encode_then_hex: format!("0x{}", hex::encode(..)).
ToHex(bytes) == <<"0", "x">> \o HexEncode(bytes)

RECURSIVE Shr8(_, _)
Shr8(n, k) == IF k = 0 THEN n ELSE Shr8(n \div 256, k - 1)

\* uN::to_be_bytes for a value of `width` bytes.
ToBeBytes(n, width) == [i \in 1..width |-> Shr8(n, width - i) % 256]

\* The value of a hex digit (hex::decode accepts both cases), -1 otherwise.
HexVal(c) ==
    CASE c \in {"0"} -> 0  [] c \in {"1"} -> 1  [] c \in {"2"} -> 2
      [] c \in {"3"} -> 3  [] c \in {"4"} -> 4  [] c \in {"5"} -> 5
      [] c \in {"6"} -> 6  [] c \in {"7"} -> 7  [] c \in {"8"} -> 8
      [] c \in {"9"} -> 9
      [] c \in {"a", "A"} -> 10 [] c \in {"b", "B"} -> 11
      [] c \in {"c", "C"} -> 12 [] c \in {"d", "D"} -> 13
      [] c \in {"e", "E"} -> 14 [] c \in {"f", "F"} -> 15
      [] OTHER -> -1

\* A character that takes two bytes in a Rust string (UTF-8), and the
\* number of bytes of a character and of a text string.
EAcute == "U+00E9"
Utf8Width(c) == IF c = EAcute THEN 2 ELSE 1

ByteLen(str) ==
    Len(str) + Cardinality({i \in DOMAIN str : Utf8Width(str[i]) = 2})

\* &str[n..]: the text from byte n on; the slice panics when n is past
\* the end or inside a character.  A character has at least one byte, so
\* the first n bytes hold at most n characters.
SliceFrom(str, n) ==
    LET most == IF Len(str) < n THEN Len(str) ELSE n
        k    == Cardinality({j \in 1..most : ByteLen(SubSeq(str, 1, j)) <= n})
    IN  IF ByteLen(SubSeq(str, 1, k)) = n
        THEN [ok |-> TRUE, str |-> SubSeq(str, k + 1, Len(str))]
        ELSE [ok |-> FALSE]

\* hex::decode: an odd number of bytes and non-hex characters are errors.
HexDecode(str) ==
    IF ByteLen(str) % 2 = 1 THEN [ok |-> FALSE, err |-> "OddLength"]
    ELSE IF \E i \in 1..Len(str) : HexVal(str[i]) = -1
         THEN [ok |-> FALSE, err |-> "InvalidHexCharacter"]
         ELSE [ok |-> TRUE,
               bytes |-> [i \in 1..(Len(str) \div 2) |->
                            16 * HexVal(str[2 * i - 1]) + HexVal(str[2 * i])]]


\* uN::to_le_bytes, the fixed-width integer layout of the chain's encoding.
ToLeBytes(n, width) == [i \in 1..width |-> Shr8(n, i - 1) % 256]

\* The length prefix of a byte vector in the chain's encoding (one byte
\* for lengths below 64).
CompactLen(n) == <<4 * n>>

(***************************************************************************)
(* The chain connection handle (OnlineClient) built by Saturn::new: the    *)
(* genesis hash, the runtime versions and the metadata read at connection  *)
(* time.  It is never written after construction.  The values are those   *)
(* of one node; the code reads them and never interprets them.             *)
(***************************************************************************)
TinkernetApi ==
    [genesis_hash        |-> Rep(170, 32),
     spec_version        |-> 100,
     transaction_version |-> 1,
     signed_extensions   |-> <<"CheckNonce", "CheckMortality",
                               "ChargeTransactionPayment">>,
     pallet_index        |-> 71,
     call_index          |-> 0]

(***************************************************************************)
(* Addresses.  AccountId32::from_str decodes an SS58 string to the 32      *)
(* bytes of the public key, or fails.                                      *)
(***************************************************************************)
AliceAddress == "5GrwvaEF5zXb26Fz9rcQpDWS57CtERHpNehXCPcNoHGKutQY"
BobAddress   == "5FHneW46xGXgs5mUiveU4sbTyGBzmstUspZC92UhjJM694ty"
BadAddress   == "not-an-address"
Addresses    == {AliceAddress, BadAddress}

AccountId32FromStr(address) ==
    IF address = AliceAddress
    THEN [ok |-> TRUE, id |-> Rep(212, 32)]
    ELSE IF address = BobAddress
    THEN [ok |-> TRUE, id |-> Rep(142, 32)]
    ELSE [ok |-> FALSE, err |-> "Invalid SS58"]

(***************************************************************************)
(* Saturn::create_core.                                                    *)
(***************************************************************************)
\* The denominator of Perbill.
PerbillAccuracy == 1000000000

\* PerbillFromParts that wraps around at the denominator.
PerbillFromParts_Wrapping(parts) == parts % PerbillAccuracy

\* Perbill::from_parts(parts).deconstruct(): parts above the denominator
\* saturate to it.
PerbillFromParts(parts) ==
    IF parts > PerbillAccuracy THEN PerbillAccuracy ELSE parts

\* The arguments of create_core tried by the model: one proportion below
\* the denominator and one above it.
CreateCoreInputs ==
    { [metadata |-> <<109>>, minimum_support |-> 500000000,
       required_approval |-> 1000000001, fee_asset |-> "KSM"] }

\* The dynamic call built by create_core.
CreateCoreCall(in) ==
    [pallet |-> "INV4",
     name   |-> "create_core",
     fields |-> [metadata           |-> CompactLen(Len(in.metadata)) \o in.metadata,
                 minimum_support    |-> PerbillFromParts(in.minimum_support),
                 required_approval  |-> PerbillFromParts(in.required_approval),
                 creation_fee_asset |-> in.fee_asset]]

FeeAssetIndex(name) == IF name = "TNKR" THEN 0 ELSE 1

\* api.tx().call_data(&call): the bytes of the call under the metadata of
\* the connection (pallet index, call index, then the fields in order).
EncodeCall(a, call) ==
    <<a.pallet_index, a.call_index>>
        \o CompactLen(Len(call.fields.metadata)) \o call.fields.metadata
        \o ToLeBytes(call.fields.minimum_support, 4)
        \o ToLeBytes(call.fields.required_approval, 4)
        \o <<FeeAssetIndex(call.fields.creation_fee_asset)>>

(***************************************************************************)
(* generate_payload.                                                       *)
(***************************************************************************)
\* generate_payload with the integers laid out least significant byte
\* first.
generate_payload_LittleEndian(a, account_address, account_nonce, call_data) ==
    [specVersion        |-> ToHex(ToLeBytes(a.spec_version, 4)),
     transactionVersion |-> ToHex(ToLeBytes(a.transaction_version, 4)),
     address            |-> account_address,
     blockHash          |-> ToHex(a.genesis_hash),
     blockNumber        |-> <<"0", "x", "0", "0", "0", "0", "0", "0", "0", "0">>,
     era                |-> ToHex(<<0>>),
     genesisHash        |-> ToHex(a.genesis_hash),
     method             |-> ToHex(call_data),
     nonce              |-> ToHex(ToLeBytes(account_nonce, 8)),
     signedExtensions   |-> [i \in 1..Len(a.signed_extensions) |->
                                a.signed_extensions[i]],
     tip                |-> ToHex(<<0>>),
     version            |-> 4]

\* generate_payload with the signed extensions collected back to front.
generate_payload_ReversedExtensions(a, account_address, account_nonce, call_data) ==
    [specVersion        |-> ToHex(ToBeBytes(a.spec_version, 4)),
     transactionVersion |-> ToHex(ToBeBytes(a.transaction_version, 4)),
     address            |-> account_address,
     blockHash          |-> ToHex(a.genesis_hash),
     blockNumber        |-> <<"0", "x", "0", "0", "0", "0", "0", "0", "0", "0">>,
     era                |-> ToHex(<<0>>),
     genesisHash        |-> ToHex(a.genesis_hash),
     method             |-> ToHex(call_data),
     nonce              |-> ToHex(ToBeBytes(account_nonce, 8)),
     signedExtensions   |-> [i \in 1..Len(a.signed_extensions) |->
                                a.signed_extensions[Len(a.signed_extensions) + 1 - i]],
     tip                |-> ToHex(<<0>>),
     version            |-> 4]

generate_payload(a, account_address, account_nonce, call_data) ==
    [specVersion        |-> ToHex(ToBeBytes(a.spec_version, 4)),
     transactionVersion |-> ToHex(ToBeBytes(a.transaction_version, 4)),
     address            |-> account_address,
     blockHash          |-> ToHex(a.genesis_hash),
     blockNumber        |-> <<"0", "x", "0", "0", "0", "0", "0", "0", "0", "0">>,
     era                |-> ToHex(<<0>>),
     genesisHash        |-> ToHex(a.genesis_hash),
     method             |-> ToHex(call_data),
     nonce              |-> ToHex(ToBeBytes(account_nonce, 8)),
     signedExtensions   |-> [i \in 1..Len(a.signed_extensions) |->
                                a.signed_extensions[i]],
     tip                |-> ToHex(<<0>>),
     version            |-> 4]

(***************************************************************************)
(* The values the JavaScript signer can hand back, and the signature       *)
(* strings tried by the model.                                             *)
(***************************************************************************)
SignatureSamples ==
    { ToHex(<<1>> \o Rep(171, 64)),      \* Sr25519, 64 bytes
      ToHex(<<3>> \o Rep(0, 64)),        \* no such scheme
      ToHex(<<0>> \o Rep(0, 10)),        \* Ed25519, too short
      <<"0", "x">>,                      \* no bytes at all
      <<"0", "x", "a">>,                 \* odd number of digits
      <<"0", "x", "z", "z">>,            \* not hex
      <<"0">>,                           \* shorter than the prefix
      <<>>,
      <<"0", EAcute, "1", "2">> }        \* byte 2 is inside a character

JsNull == [type |-> "null"]
JsResponse(sig) == [type |-> "object", signature |-> sig]
JsValues == {JsNull} \cup {JsResponse(s) : s \in SignatureSamples}

\* serde_wasm_bindgen::from_value::<SignatureResponse>.
DeserializeSignatureResponse(v) ==
    IF v.type = "object"
    THEN [ok |-> TRUE, signature |-> v.signature]
    ELSE [ok |-> FALSE]

\* MultiSignature::decode(&mut &signature[..]): one byte selects the scheme
\* (0 Ed25519, 1 Sr25519, 2 Ecdsa), followed by 64, 64 or 65 bytes; bytes
\* after the signature are not read.
MultiSignatureDecode(bytes) ==
    IF Len(bytes) = 0 \/ bytes[1] \notin {0, 1, 2} THEN [ok |-> FALSE]
    ELSE LET need == IF bytes[1] = 2 THEN 65 ELSE 64
         IN  IF Len(bytes) - 1 < need THEN [ok |-> FALSE]
             ELSE [ok |-> TRUE, scheme |-> bytes[1],
                   sig |-> SubSeq(bytes, 2, need + 1)]


(***************************************************************************)
(* Events of a block.  "Undecodable" is an event record that the metadata  *)
(* of the connection cannot decode: iterating over it yields an error.     *)
(***************************************************************************)
EventKinds == {"CoreCreated", "ExtrinsicSuccess", "Undecodable"}

EventLists == UNION {[1..n -> EventKinds] : n \in 0..MaxEvents}

\* events.find_first::<Ev>(): the events are decoded in order; the first
\* one of the wanted type is returned, an undecodable record met before it
\* is an error, and there is no result when neither is met.
RECURSIVE FindFirst(_, _)
FindFirst(events, kind) ==
    IF events = <<>> THEN [tag |-> "None"]
    ELSE IF Head(events) = "Undecodable" THEN [tag |-> "Err"]
    ELSE IF Head(events) = kind THEN [tag |-> "Some", event |-> kind]
    ELSE FindFirst(Tail(events), kind)

(***************************************************************************)
(* State.                                                                  *)
(***************************************************************************)
VARIABLES
    api,         \* Saturn.api, and its clone in every Call
    calls,       \* the Call values returned by create_core so far
    chainNonce,  \* the node: next nonce of the account
    broadcast,   \* the node: the transactions submitted to it
    run          \* the locals of each run of sign_and_submit

vars == <<api, calls, chainNonce, broadcast, run>>

\* The statements of sign_and_submit, in program order.
StageOrder ==
    << "parse_address", "call_data", "account_nonce", "generate_payload",
       "call_signer", "await_signature", "from_value", "hex_decode",
       "multi_signature_decode", "create_partial_signed", "sign",
       "submit_and_watch", "wait_for_in_block", "fetch_events",
       "find_core_created", "find_extrinsic_success" >>

Running  == [tag |-> "Running"]
Ok       == [tag |-> "Ok"]
Panic    == [tag |-> "Panic"]
SaturnError(stage, msg) == [tag |-> "Err", stage |-> stage, error |-> msg]

NoPromise == [state |-> "none"]
Pending   == [state |-> "pending"]
Resolved(v) == [state |-> "resolved", value |-> v]
Rejected  == [state |-> "rejected"]
\* call1 returned Err: the function threw and there is no promise.
Thrown    == [state |-> "thrown"]

NoInner == [tag |-> "None"]

InitRun ==
    [pc               |-> "idle",
     call             |-> 0,
     address          |-> "",
     account_id       |-> <<>>,
     call_data        |-> <<>>,
     account_nonce    |-> 0,
     payload          |-> <<>>,
     promise          |-> NoPromise,
     signature        |-> JsNull,
     signature_bytes  |-> <<>>,
     multi_signature  |-> <<>>,
     partial_signed   |-> <<>>,
     signed_extrinsic |-> <<>>,
     milestones       |-> <<>>,   \* what the node answered, in order
     events           |-> <<>>,
     inner            |-> NoInner,
     result           |-> Running,
     trace            |-> <<>>,
     signer_args      |-> <<>>]

Init ==
    /\ api = TinkernetApi
    /\ calls = <<>>
    /\ chainNonce = 0
    /\ broadcast = {}
    /\ run = [r \in Runs |-> InitRun]

(***************************************************************************)
(* Saturn::create_core: returns a new Call holding a clone of the api and  *)
(* the dynamic call.  The model keeps the arguments of the invocation      *)
(* next to the Call, as history.                                           *)
(***************************************************************************)
create_core(in) ==
    /\ Len(calls) < MaxCalls
    /\ calls' = Append(calls, [call |-> CreateCoreCall(in), args |-> in])
    /\ UNCHANGED <<api, chainNonce, broadcast, run>>

(***************************************************************************)
(* Call::sign_and_submit, one action per statement.                        *)
(***************************************************************************)
\* The run moves on to statement `next` with the locals `upd` written.
Goto(r, stage, next, upd) ==
    run' = [run EXCEPT ![r] =
              [f \in DOMAIN run[r] |->
                 IF f = "pc" THEN next
                 ELSE IF f = "trace" THEN Append(run[r].trace, stage)
                 ELSE IF f \in DOMAIN upd THEN upd[f]
                 ELSE run[r][f]]]

\* Fail without the return: the error is noted and the run carries on
\* with the next statement.
Fail_NoReturn(r, stage, msg) ==
    run' = [run EXCEPT ![r].pc = StageOrder[Len(run[r].trace) + 2],
                       ![r].trace = Append(run[r].trace, stage),
                       ![r].result = SaturnError(stage, msg)]

\* `?` on an Err: the run returns the error to the caller.
Fail(r, stage, msg) ==
    run' = [run EXCEPT ![r].pc = "done",
                       ![r].trace = Append(run[r].trace, stage),
                       ![r].result = SaturnError(stage, msg)]

\* The statements at which a run is not suspended in an await.
SyncPcs ==
    { "parse_address", "call_data", "generate_payload", "call_signer",
      "from_value", "hex_decode", "multi_signature_decode",
      "create_partial_signed", "sign", "find_core_created",
      "find_extrinsic_success", "return" }

\* The runs are futures on the single-threaded JavaScript event loop: a
\* run is resumed, and a new one is started, only while every other run is
\* suspended in an await or has returned.
Scheduled(r) == \A q \in Runs \ {r} : run[q].pc \notin SyncPcs

\* The caller invokes call.sign_and_submit(address, signer_function).
sign_and_submit(r, c, address) ==
    /\ run[r].pc = "idle"
    /\ Scheduled(r)
    /\ c \in 1..Len(calls)
    /\ run' = [run EXCEPT ![r].pc = "parse_address",
                          ![r].call = c,
                          ![r].address = address]
    /\ UNCHANGED <<api, calls, chainNonce, broadcast>>

ParseAddress(r) ==
    /\ run[r].pc = "parse_address"
    /\ Scheduled(r)
    /\ LET p == AccountId32FromStr(run[r].address)
       IN  IF p.ok
           THEN Goto(r, "parse_address", "call_data", [account_id |-> p.id])
           ELSE Fail(r, "parse_address", p.err)
    /\ UNCHANGED <<api, calls, chainNonce, broadcast>>

\* The encoder of the connection either yields the bytes of the call or
\* reports an error.
CallData(r) ==
    /\ run[r].pc = "call_data"
    /\ Scheduled(r)
    /\ \/ Goto(r, "call_data", "account_nonce",
               [call_data |-> EncodeCall(api, calls[run[r].call].call)])
       \/ Fail(r, "call_data", "could not encode call data")
    /\ UNCHANGED <<api, calls, chainNonce, broadcast>>

\* AccountNonce with a retry: a failed query is sent again.
AccountNonce_Retry(r) ==
    /\ run[r].pc = "account_nonce"
    /\ Scheduled(r)
    /\ \/ Goto(r, "account_nonce", "generate_payload",
               [account_nonce |-> chainNonce])
       \/ /\ Len(run[r].trace) < Len(StageOrder)
          /\ Goto(r, "account_nonce", "account_nonce", [pc |-> "account_nonce"])
    /\ UNCHANGED <<api, calls, chainNonce, broadcast>>

\* The node answers the nonce query with the account's next nonce, or the
\* query fails.
AccountNonce(r) ==
    /\ run[r].pc = "account_nonce"
    /\ Scheduled(r)
    /\ \/ Goto(r, "account_nonce", "generate_payload",
               [account_nonce |-> chainNonce])
       \/ Fail(r, "account_nonce", "Fetching account nonce failed")
    /\ UNCHANGED <<api, calls, chainNonce, broadcast>>

GeneratePayload(r) ==
    /\ run[r].pc = "generate_payload"
    /\ Scheduled(r)
    /\ Goto(r, "generate_payload", "call_signer",
            [payload |-> generate_payload(api, run[r].address,
                                          run[r].account_nonce,
                                          run[r].call_data)])
    /\ UNCHANGED <<api, calls, chainNonce, broadcast>>


\* CallSigner with the function called a second time for its result.
CallSigner_Twice(r) ==
    /\ run[r].pc = "call_signer"
    /\ Scheduled(r)
    /\ \E v \in JsValues :
         Goto(r, "call_signer", "await_signature",
              [signer_args |-> run[r].signer_args
                                 \o <<run[r].payload, run[r].payload>>,
               promise |-> Resolved(v)])
    /\ UNCHANGED <<api, calls, chainNonce, broadcast>>

\* signer_function.call1(&this, &json_parse(payload)): the JavaScript
\* function runs; it throws, returns a value, or returns a promise that is
\* still pending.
\* The function throws: call1 is an Err and sign_and_submit returns it.
CallSignerThrows(r) ==
    /\ run[r].pc = "call_signer"
    /\ Scheduled(r)
    /\ run' = [run EXCEPT ![r].pc = "done",
                  ![r].trace = Append(run[r].trace, "call_signer"),
                  ![r].signer_args = Append(run[r].signer_args, run[r].payload),
                  ![r].promise = Thrown,
                  ![r].result = SaturnError("call_signer", "JsValue(thrown)")]
    /\ UNCHANGED <<api, calls, chainNonce, broadcast>>

\* CallSignerReturnsValue without Promise::resolve: the plain value is
\* taken for a promise, which it is not.
CallSignerReturnsValue_Unwrapped(r) ==
    /\ run[r].pc = "call_signer"
    /\ Scheduled(r)
    /\ \E v \in JsValues :
         Goto(r, "call_signer", "await_signature",
              [signer_args |-> Append(run[r].signer_args, run[r].payload),
               promise |-> Rejected])
    /\ UNCHANGED <<api, calls, chainNonce, broadcast>>

\* The function returns a plain value: Promise::resolve wraps it in a
\* promise that is already resolved with it.
CallSignerReturnsValue(r) ==
    /\ run[r].pc = "call_signer"
    /\ Scheduled(r)
    /\ \E v \in JsValues :
         Goto(r, "call_signer", "await_signature",
              [signer_args |-> Append(run[r].signer_args, run[r].payload),
               promise |-> Resolved(v)])
    /\ UNCHANGED <<api, calls, chainNonce, broadcast>>

\* The function returns a promise that is still pending: Promise::resolve
\* hands it through.
CallSignerReturnsPromise(r) ==
    /\ run[r].pc = "call_signer"
    /\ Scheduled(r)
    /\ Goto(r, "call_signer", "await_signature",
            [signer_args |-> Append(run[r].signer_args, run[r].payload),
             promise |-> Pending])
    /\ UNCHANGED <<api, calls, chainNonce, broadcast>>

CallSigner(r) ==
    \/ CallSignerThrows(r)
    \/ CallSignerReturnsValue(r)
    \/ CallSignerReturnsPromise(r)

\* The signer settles the promise it returned.
SignerSettles(r) ==
    /\ run[r].pc = "await_signature"
    /\ Scheduled(r)
    /\ run[r].promise = Pending
    /\ \/ \E v \in JsValues : run' = [run EXCEPT ![r].promise = Resolved(v)]
       \/ run' = [run EXCEPT ![r].promise = Rejected]
    /\ UNCHANGED <<api, calls, chainNonce, broadcast>>

\* AwaitSignature with the rejection swallowed: the run goes on with the
\* reason of the rejection as if it were the response.
AwaitSignature_SwallowsRejection(r) ==
    /\ run[r].pc = "await_signature"
    /\ Scheduled(r)
    /\ run[r].promise.state \in {"resolved", "rejected"}
    /\ Goto(r, "await_signature", "from_value",
            [signature |-> IF run[r].promise.state = "resolved"
                           THEN run[r].promise.value ELSE JsNull])
    /\ UNCHANGED <<api, calls, chainNonce, broadcast>>

\* JsFuture::from(promise).await: resumes once the promise is settled.
AwaitSignature(r) ==
    /\ run[r].pc = "await_signature"
    /\ Scheduled(r)
    /\ run[r].promise.state \in {"resolved", "rejected"}
    /\ IF run[r].promise.state = "resolved"
       THEN Goto(r, "await_signature", "from_value",
                 [signature |-> run[r].promise.value])
       ELSE Fail(r, "await_signature", "rust signature await JsValue(rejected)")
    /\ UNCHANGED <<api, calls, chainNonce, broadcast>>

FromValue(r) ==
    /\ run[r].pc = "from_value"
    /\ Scheduled(r)
    /\ LET d == DeserializeSignatureResponse(run[r].signature)
       IN  IF d.ok
           THEN Goto(r, "from_value", "hex_decode", [pc |-> "hex_decode"])
           ELSE Fail(r, "from_value", "Error deserializing SignatureResponse")
    /\ UNCHANGED <<api, calls, chainNonce, broadcast>>

\* hex::decode(&signature[2..]): the slice panics when the string has
\* fewer than two bytes or when byte 2 is inside a character.
HexDecodeSignature(r) ==
    /\ run[r].pc = "hex_decode"
    /\ Scheduled(r)
    /\ LET signature == run[r].signature.signature
           rest      == SliceFrom(signature, 2)
       IN  IF ~rest.ok
           THEN run' = [run EXCEPT ![r].pc = "done",
                           ![r].trace = Append(run[r].trace, "hex_decode"),
                           ![r].result = Panic]
           ELSE LET d == HexDecode(rest.str)
                IN  IF d.ok
                    THEN Goto(r, "hex_decode", "multi_signature_decode",
                              [signature_bytes |-> d.bytes])
                    ELSE Fail(r, "hex_decode", d.err)
    /\ UNCHANGED <<api, calls, chainNonce, broadcast>>

DecodeMultiSignature(r) ==
    /\ run[r].pc = "multi_signature_decode"
    /\ Scheduled(r)
    /\ LET d == MultiSignatureDecode(run[r].signature_bytes)
       IN  IF d.ok
           THEN Goto(r, "multi_signature_decode", "create_partial_signed",
                     [multi_signature |-> <<d.scheme>> \o d.sig])
           ELSE Fail(r, "multi_signature_decode", "MultiSignature Decoding")
    /\ UNCHANGED <<api, calls, chainNonce, broadcast>>

\* PartialNonce with the nonce of the account read again at assembly.
PartialNonce_Refetched(r) == chainNonce

\* The nonce and the call that create_partial_signed_with_nonce is given.
PartialNonce(r) == run[r].account_nonce
PartialCall(r)  == calls[run[r].call].call

\* api.tx().create_partial_signed_with_nonce(&self.call, account_nonce,
\* Default::default()): the call is encoded again under the metadata of the
\* connection; the library reports an error or yields the unsigned parts.
CreatePartialSigned(r) ==
    /\ run[r].pc = "create_partial_signed"
    /\ Scheduled(r)
    /\ \/ Goto(r, "create_partial_signed", "sign",
               [partial_signed |->
                  [call_data |-> EncodeCall(api, PartialCall(r)),
                   nonce     |-> PartialNonce(r),
                   era       |-> "Immortal",
                   tip       |-> 0]])
       \/ Fail(r, "create_partial_signed", "PartialExtrinsic creation failed")
    /\ UNCHANGED <<api, calls, chainNonce, broadcast>>

\* partial_signed.sign_with_address_and_signature(&account_id.into(),
\* &multi_signature).
SignWithAddressAndSignature(r) ==
    /\ run[r].pc = "sign"
    /\ Scheduled(r)
    /\ Goto(r, "sign", "submit_and_watch",
            [signed_extrinsic |->
               [address   |-> run[r].account_id,
                signature |-> run[r].multi_signature,
                nonce     |-> run[r].partial_signed.nonce,
                call_data |-> run[r].partial_signed.call_data]])
    /\ UNCHANGED <<api, calls, chainNonce, broadcast>>


(***************************************************************************)
(* submit_wait_inblock_and_get_event, called from sign_and_submit.  Its    *)
(* result is kept in `inner` until sign_and_submit maps it.                *)
(***************************************************************************)
InnerOk(event) == [tag |-> "Ok", event |-> event]
InnerErr(stage, msg) == [tag |-> "Err", stage |-> stage, error |-> msg]

\* `?` inside submit_wait_inblock_and_get_event: it returns the error.
InnerFail(r, stage, msg) ==
    run' = [run EXCEPT ![r].pc = "return",
                       ![r].trace = Append(run[r].trace, stage),
                       ![r].inner = InnerErr(stage, msg)]

\* The same for an await on the node that failed; `answer` is what the
\* node did.
NodeFail(r, stage, answer, msg) ==
    run' = [run EXCEPT ![r].pc = "return",
                       ![r].trace = Append(run[r].trace, stage),
                       ![r].milestones = Append(run[r].milestones, answer),
                       ![r].inner = InnerErr(stage, msg)]

\* SubmitAndWatch that does not watch: after the pool took the
\* transaction the run goes straight on to the events.
SubmitAndWatch_NoWait(r) ==
    /\ run[r].pc = "submit_and_watch"
    /\ Scheduled(r)
    /\ broadcast' = broadcast \cup {[by |-> r, tx |-> run[r].signed_extrinsic]}
    /\ \/ /\ run[r].signed_extrinsic.nonce >= chainNonce
          /\ run' = [run EXCEPT ![r].pc = "fetch_events",
                         ![r].trace = run[r].trace
                                        \o <<"submit_and_watch", "wait_for_in_block">>,
                         ![r].milestones = Append(run[r].milestones, "pool")]
       \/ NodeFail(r, "submit_and_watch", "pool_rejected", "Rpc error")
    /\ UNCHANGED <<api, calls, chainNonce>>

\* extrinsic.submit_and_watch().await?: the transaction is sent to the
\* node, whose pool accepts or rejects it.  A pool does not accept a nonce
\* that the account has already used.
SubmitAndWatch(r) ==
    /\ run[r].pc = "submit_and_watch"
    /\ Scheduled(r)
    /\ broadcast' = broadcast \cup {[by |-> r, tx |-> run[r].signed_extrinsic]}
    /\ \/ /\ run[r].signed_extrinsic.nonce >= chainNonce
          /\ Goto(r, "submit_and_watch", "wait_for_in_block",
                  [milestones |-> Append(run[r].milestones, "pool")])
       \/ NodeFail(r, "submit_and_watch", "pool_rejected", "Rpc error")
    /\ UNCHANGED <<api, calls, chainNonce>>

\* .wait_for_in_block().await?: a block includes the transaction, which
\* takes the account to its next nonce, or the wait ends in an error (the
\* transaction was dropped or found invalid, the connection was lost).
WaitForInBlock(r) ==
    /\ run[r].pc = "wait_for_in_block"
    /\ Scheduled(r)
    /\ \/ /\ run[r].signed_extrinsic.nonce = chainNonce
          /\ chainNonce' = chainNonce + 1
          /\ Goto(r, "wait_for_in_block", "fetch_events",
                  [milestones |-> Append(run[r].milestones, "in_block")])
       \/ /\ NodeFail(r, "wait_for_in_block", "in_block_failed",
                      "Transaction error")
          /\ UNCHANGED chainNonce
    /\ UNCHANGED <<api, calls, broadcast>>

\* FetchEvents with the error swallowed: a failed retrieval counts as a
\* block without events.
FetchEvents_Swallow(r) ==
    /\ run[r].pc = "fetch_events"
    /\ Scheduled(r)
    /\ \/ \E evs \in EventLists :
            Goto(r, "fetch_events", "find_core_created",
                 [milestones |-> Append(run[r].milestones, "events"),
                  events |-> evs])
       \/ Goto(r, "fetch_events", "find_core_created",
               [milestones |-> Append(run[r].milestones, "events_failed"),
                events |-> <<>>])
    /\ UNCHANGED <<api, calls, chainNonce, broadcast>>

\* .fetch_events().await?: the events of the block, or an error.
FetchEvents(r) ==
    /\ run[r].pc = "fetch_events"
    /\ Scheduled(r)
    /\ \/ \E evs \in EventLists :
            Goto(r, "fetch_events", "find_core_created",
                 [milestones |-> Append(run[r].milestones, "events"),
                  events |-> evs])
       \/ NodeFail(r, "fetch_events", "events_failed", "Rpc error")
    /\ UNCHANGED <<api, calls, chainNonce, broadcast>>

\* FindCoreCreated that carries on when the block has no CoreCreated
\* event.
FindCoreCreated_Optional(r) ==
    /\ run[r].pc = "find_core_created"
    /\ Scheduled(r)
    /\ LET f == FindFirst(run[r].events, "CoreCreated")
       IN  IF f.tag = "Err"
           THEN InnerFail(r, "find_core_created", "Event decoding error")
           ELSE Goto(r, "find_core_created", "find_extrinsic_success",
                     [pc |-> "find_extrinsic_success"])
    /\ UNCHANGED <<api, calls, chainNonce, broadcast>>

\* events.find_first::<CoreCreated>()?.unwrap(), after the events were
\* written to the console: `?` returns a decoding error, unwrap panics
\* when there is no such event.
FindCoreCreated(r) ==
    /\ run[r].pc = "find_core_created"
    /\ Scheduled(r)
    /\ LET f == FindFirst(run[r].events, "CoreCreated")
       IN  CASE f.tag = "Err" ->
                  InnerFail(r, "find_core_created", "Event decoding error")
             [] f.tag = "None" ->
                  run' = [run EXCEPT ![r].pc = "done",
                             ![r].trace = Append(run[r].trace, "find_core_created"),
                             ![r].result = Panic]
             [] f.tag = "Some" ->
                  Goto(r, "find_core_created", "find_extrinsic_success",
                       [pc |-> "find_extrinsic_success"])
    /\ UNCHANGED <<api, calls, chainNonce, broadcast>>

\* FindExtrinsicSuccess that takes the CoreCreated event for the success
\* when no ExtrinsicSuccess is found.
FindExtrinsicSuccess_IgnoresMissing(r) ==
    /\ run[r].pc = "find_extrinsic_success"
    /\ Scheduled(r)
    /\ LET f == FindFirst(run[r].events, "ExtrinsicSuccess")
       IN  IF f.tag = "Err"
           THEN InnerFail(r, "find_extrinsic_success", "Event decoding error")
           ELSE run' = [run EXCEPT ![r].pc = "return",
                           ![r].trace = Append(run[r].trace, "find_extrinsic_success"),
                           ![r].inner = InnerOk("ExtrinsicSuccess")]
    /\ UNCHANGED <<api, calls, chainNonce, broadcast>>

\* events.find_first::<ExtrinsicSuccess>()? and
\* success.ok_or(anyhow!("ExtrinsicSuccess not found in events")).
FindExtrinsicSuccess(r) ==
    /\ run[r].pc = "find_extrinsic_success"
    /\ Scheduled(r)
    /\ LET f == FindFirst(run[r].events, "ExtrinsicSuccess")
       IN  CASE f.tag = "Err" ->
                  InnerFail(r, "find_extrinsic_success", "Event decoding error")
             [] f.tag = "None" ->
                  InnerFail(r, "find_extrinsic_success",
                            "ExtrinsicSuccess not found in events")
             [] f.tag = "Some" ->
                  run' = [run EXCEPT ![r].pc = "return",
                             ![r].trace = Append(run[r].trace, "find_extrinsic_success"),
                             ![r].inner = InnerOk(f.event)]
    /\ UNCHANGED <<api, calls, chainNonce, broadcast>>

\* Back in sign_and_submit: .map_err(|e| SaturnError(e.to_string()))? and
\* Ok(()).
Return(r) ==
    /\ run[r].pc = "return"
    /\ Scheduled(r)
    /\ run' = [run EXCEPT ![r].pc = "done",
                  ![r].result = IF run[r].inner.tag = "Ok" THEN Ok
                                ELSE SaturnError(run[r].inner.stage,
                                                 run[r].inner.error)]
    /\ UNCHANGED <<api, calls, chainNonce, broadcast>>

Next ==
    \/ \E in \in CreateCoreInputs : create_core(in)
    \/ \E r \in Runs, c \in 1..MaxCalls, address \in Addresses :
          sign_and_submit(r, c, address)
    \/ \E r \in Runs : ParseAddress(r)
    \/ \E r \in Runs : CallData(r)
    \/ \E r \in Runs : AccountNonce(r)
    \/ \E r \in Runs : GeneratePayload(r)
    \/ \E r \in Runs : CallSigner(r)
    \/ \E r \in Runs : SignerSettles(r)
    \/ \E r \in Runs : AwaitSignature(r)
    \/ \E r \in Runs : FromValue(r)
    \/ \E r \in Runs : HexDecodeSignature(r)
    \/ \E r \in Runs : DecodeMultiSignature(r)
    \/ \E r \in Runs : CreatePartialSigned(r)
    \/ \E r \in Runs : SignWithAddressAndSignature(r)
    \/ \E r \in Runs : SubmitAndWatch(r)
    \/ \E r \in Runs : WaitForInBlock(r)
    \/ \E r \in Runs : FetchEvents(r)
    \/ \E r \in Runs : FindCoreCreated(r)
    \/ \E r \in Runs : FindExtrinsicSuccess(r)
    \/ \E r \in Runs : Return(r)

Spec == Init /\ [][Next]_vars


(***************************************************************************)
(* The payload generator over several connections, account nonces,         *)
(* addresses and calls: one pipeline runs from create_core to               *)
(* generate_payload.                                                       *)
(***************************************************************************)
\* Connections to nodes with other runtime versions and other lists of
\* signed extensions.
ApiSamples ==
    { TinkernetApi,
      [genesis_hash        |-> Rep(1, 32),
       spec_version        |-> 16909060,
       transaction_version |-> 258,
       signed_extensions   |-> <<"ChargeTransactionPayment", "CheckNonce",
                                 "CheckSpecVersion", "CheckNonce">>,
       pallet_index        |-> 18,
       call_index          |-> 52],
      [genesis_hash        |-> Rep(255, 32),
       spec_version        |-> 2147483647,
       transaction_version |-> 0,
       signed_extensions   |-> <<>>,
       pallet_index        |-> 0,
       call_index          |-> 255] }

\* The nonce of the account on the chain when the connection is made.
NonceSamples == {0, 5, 255, 256, 16909060, 2147483647}

PayloadAddresses == {AliceAddress, BobAddress, BadAddress}

PayloadCreateCoreInputs ==
    CreateCoreInputs \cup
    { [metadata |-> <<>>, minimum_support |-> 0,
       required_approval |-> 1000000000, fee_asset |-> "TNKR"] }

InitPayload ==
    /\ api \in ApiSamples
    /\ calls = <<>>
    /\ chainNonce \in NonceSamples
    /\ broadcast = {}
    /\ run = [r \in Runs |-> InitRun]

NextPayload ==
    \/ \E in \in PayloadCreateCoreInputs : create_core(in)
    \/ \E c \in 1..MaxCalls, address \in PayloadAddresses :
          sign_and_submit("r1", c, address)
    \/ ParseAddress("r1")
    \/ CallData("r1")
    \/ AccountNonce("r1")
    \/ GeneratePayload("r1")

SpecPayload == InitPayload /\ [][NextPayload]_vars

(***************************************************************************)
(* Two pipelines that differ in how the signer answers: the signer of r1   *)
(* returns its value directly, the signer of r2 returns a promise that is  *)
(* still pending and settles it later.                                     *)
(***************************************************************************)
ImmediateRun == "r1"
DeferredRun  == "r2"

NextBridge ==
    \/ \E in \in CreateCoreInputs : create_core(in)
    \/ \E r \in Runs, c \in 1..MaxCalls, address \in Addresses :
          sign_and_submit(r, c, address)
    \/ \E r \in Runs : ParseAddress(r)
    \/ \E r \in Runs : CallData(r)
    \/ \E r \in Runs : AccountNonce(r)
    \/ \E r \in Runs : GeneratePayload(r)
    \/ \E r \in Runs : CallSignerThrows(r)
    \/ CallSignerReturnsValue(ImmediateRun)
    \/ CallSignerReturnsPromise(DeferredRun)
    \/ \E r \in Runs : SignerSettles(r)
    \/ \E r \in Runs : AwaitSignature(r)
    \/ \E r \in Runs : FromValue(r)
    \/ \E r \in Runs : HexDecodeSignature(r)
    \/ \E r \in Runs : DecodeMultiSignature(r)
    \/ \E r \in Runs : CreatePartialSigned(r)
    \/ \E r \in Runs : SignWithAddressAndSignature(r)
    \/ \E r \in Runs : SubmitAndWatch(r)
    \/ \E r \in Runs : WaitForInBlock(r)
    \/ \E r \in Runs : FetchEvents(r)
    \/ \E r \in Runs : FindCoreCreated(r)
    \/ \E r \in Runs : FindExtrinsicSuccess(r)
    \/ \E r \in Runs : Return(r)

SpecBridge == Init /\ [][NextBridge]_vars

(***************************************************************************)
(* Progress.  The event loop runs a pipeline that has a statement to run,  *)
(* and every external await of the pipeline (nonce query, signer result,   *)
(* pool acceptance, block inclusion, event retrieval) is answered in the   *)
(* end.  Nothing obliges the caller to invoke create_core or               *)
(* sign_and_submit.                                                        *)
(***************************************************************************)
RunStep(r) ==
    \/ ParseAddress(r)
    \/ CallData(r)
    \/ AccountNonce(r)
    \/ GeneratePayload(r)
    \/ CallSigner(r)
    \/ SignerSettles(r)
    \/ AwaitSignature(r)
    \/ FromValue(r)
    \/ HexDecodeSignature(r)
    \/ DecodeMultiSignature(r)
    \/ CreatePartialSigned(r)
    \/ SignWithAddressAndSignature(r)
    \/ SubmitAndWatch(r)
    \/ WaitForInBlock(r)
    \/ FetchEvents(r)
    \/ FindCoreCreated(r)
    \/ FindExtrinsicSuccess(r)
    \/ Return(r)

SpecLive == Init /\ [][Next]_vars /\ \A r \in Runs : WF_vars(RunStep(r))

(***************************************************************************)
(* create_core alone, over proportions on both sides of the denominator    *)
(* of Perbill, up to the largest integer the model checker holds           *)
(* (2^31 - 1).                                                             *)
(***************************************************************************)
PartsSamples ==
    {0, 1, 500000000, 999999999, 1000000000, 1000000001, 2000000000,
     2147483647}

ProportionInputs ==
    [metadata : {<<109>>}, minimum_support : PartsSamples,
     required_approval : PartsSamples, fee_asset : {"TNKR", "KSM"}]

NextCreateCore == \E in \in ProportionInputs : create_core(in)

SpecCreateCore == Init /\ [][NextCreateCore]_vars

(***************************************************************************)
(* Properties.                                                             *)
(***************************************************************************)
Range(seq) == {seq[i] : i \in DOMAIN seq}

\* The run has executed statement `stage`.
Did(r, stage) == stage \in Range(run[r].trace)

\* The run has executed statement `stage` and it did not fail there.
Succeeded(r, stage) ==
    /\ Did(r, stage)
    /\ ~(run[r].result.tag = "Err" /\ run[r].result.stage = stage)
    /\ ~(run[r].inner.tag = "Err" /\ run[r].inner.stage = stage)
    /\ ~(run[r].result.tag = "Panic"
           /\ run[r].trace[Len(run[r].trace)] = stage)

\* The statements of the Signature Assembler and what follows it.
AssemblerStages ==
    {"hex_decode", "multi_signature_decode", "create_partial_signed", "sign"}
SubmissionStages ==
    {"submit_and_watch", "wait_for_in_block", "fetch_events",
     "find_core_created", "find_extrinsic_success"}

Submitted(r) == \E b \in broadcast : b.by = r

\* C1: when the signer rejects (the call throws, or the promise it returned
\* is rejected), the run ends with the error of the signer call or of the
\* await, and it decodes no signature, builds no partial or signed
\* transaction and submits nothing.
C1_SignerRejects ==
    \A r \in Runs :
        run[r].promise.state \in {"thrown", "rejected"} =>
            /\ run[r].pc \in {"await_signature", "done"}
            /\ run[r].pc = "done" =>
                   /\ run[r].result.tag = "Err"
                   /\ run[r].result.stage \in {"call_signer", "await_signature"}
            /\ Range(run[r].trace) \cap (AssemblerStages \cup SubmissionStages) = {}
            /\ ~Submitted(r)

C1_Witness ==
    /\ \E r \in Runs : run[r].promise.state = "rejected" /\ run[r].pc = "done"
    /\ \E r \in Runs : run[r].promise.state = "thrown" /\ run[r].pc = "done"

\* C2: when the events of the block hold ExtrinsicSuccess and no
\* CoreCreated, sign_and_submit returns an error to the caller.
C2_OutcomeNotFound ==
    \A r \in Runs :
        ( /\ run[r].pc = "done"
          /\ "events" \in Range(run[r].milestones)
          /\ "ExtrinsicSuccess" \in Range(run[r].events)
          /\ "CoreCreated" \notin Range(run[r].events) )
            => run[r].result.tag = "Err"

\* C3: once the partial transaction is built, its nonce and call bytes are
\* those of the payload that was handed to the signer in the same run, and
\* so are those of the signed transaction and of what is submitted.
C3_SameNonceAndCall ==
    \A r \in Runs :
        Succeeded(r, "create_partial_signed") =>
            LET shown == run[r].signer_args[1]
                agrees(tx) ==
                    /\ ToHex(ToBeBytes(tx.nonce, 8)) = shown.nonce
                    /\ ToHex(tx.call_data) = shown.method
            IN  /\ Len(run[r].signer_args) = 1
                /\ agrees(run[r].partial_signed)
                /\ Succeeded(r, "sign") => agrees(run[r].signed_extrinsic)
                /\ \A b \in broadcast : b.by = r => agrees(b.tx)

\* A run has submitted its transaction after the account moved on from
\* the nonce the run fetched.
C3_Witness ==
    \E r \in Runs :
        /\ Submitted(r)
        /\ chainNonce > run[r].account_nonce
        /\ "in_block" \notin Range(run[r].milestones)


\* C4: two runs for the same account never both submit a transaction with
\* the same nonce.
C4_DistinctNonces ==
    \A b1, b2 \in broadcast :
        (b1.by # b2.by /\ b1.tx.address = b2.tx.address)
            => b1.tx.nonce # b2.tx.nonce

\* The statements executed so far are exactly those before `pc`, each once
\* and in program order.
IsPrefix(s, t) == Len(s) <= Len(t) /\ \A i \in 1..Len(s) : s[i] = t[i]

\* C5: in every run the statements executed are a prefix of the program
\* order (each at most once, none skipped, none repeated), the statement
\* the run is at is the one right after those executed, and a run that
\* failed or panicked at a statement executed nothing after it.
C5_StagesInOrder ==
    \A r \in Runs :
        LET t == run[r].trace
        IN  /\ IsPrefix(t, StageOrder)
            /\ run[r].pc \notin {"idle", "return", "done"}
                   => /\ Len(t) < Len(StageOrder)
                      /\ run[r].pc = StageOrder[Len(t) + 1]
                      /\ run[r].result = Running
                      /\ run[r].inner = NoInner
            /\ run[r].result.tag = "Err"
                   => run[r].pc = "done" /\ t[Len(t)] = run[r].result.stage
            /\ run[r].inner.tag = "Err" => t[Len(t)] = run[r].inner.stage
            /\ run[r].result.tag = "Ok" => t = StageOrder
            /\ run[r].pc = "idle" => t = <<>>

C5_Witness ==
    \E r \in Runs : run[r].result = Ok /\ run[r].trace = StageOrder

\* C6: the signer function is called at most once in a run: once, with the
\* payload generated from the address, nonce and call bytes of the run,
\* as soon as the run is past the call (which every run whose address
\* parse, call encoding and nonce fetch succeeded reaches), and never in a
\* run where one of those three failed.
C6_SignerCalledOnce ==
    \A r \in Runs :
        /\ Len(run[r].signer_args) <= 1
        /\ Did(r, "call_signer") <=> Len(run[r].signer_args) = 1
        /\ Len(run[r].signer_args) = 1 =>
               /\ run[r].signer_args[1] = run[r].payload
               /\ run[r].payload.address = run[r].address
        /\ (run[r].pc \in {"return", "done"} /\ Succeeded(r, "account_nonce"))
               => Len(run[r].signer_args) = 1
        /\ (run[r].result.tag = "Err" /\ run[r].result.stage \in
                {"parse_address", "call_data", "account_nonce"})
               => Len(run[r].signer_args) = 0

C6_Witness ==
    /\ \E r \in Runs : run[r].result = Ok /\ Len(run[r].signer_args) = 1
    /\ \E r \in Runs : /\ run[r].result.tag = "Err"
                       /\ run[r].result.stage = "account_nonce"
                       /\ Len(run[r].signer_args) = 0

\* The statements before the submission.
PreSubmitStages ==
    { "parse_address", "call_data", "account_nonce", "call_signer",
      "await_signature", "from_value", "hex_decode",
      "multi_signature_decode", "create_partial_signed" }

\* C7: a run that returned an error of a statement before the submission
\* has submitted nothing and executed nothing after that statement.
C7_FailFastBeforeSubmit ==
    \A r \in Runs :
        (run[r].result.tag = "Err" /\ run[r].result.stage \in PreSubmitStages)
            => /\ ~Submitted(r)
               /\ run[r].pc = "done"
               /\ run[r].trace[Len(run[r].trace)] = run[r].result.stage
               /\ run[r].milestones = <<>>

C7_Witness ==
    /\ \E r \in Runs : /\ run[r].result.tag = "Err"
                       /\ run[r].result.stage = "multi_signature_decode"
    /\ \E r \in Runs : /\ run[r].result.tag = "Err"
                       /\ run[r].result.stage = "create_partial_signed"

\* submit_wait_inblock_and_get_event has produced an outcome: the success
\* event, or an error of the event scan.
OutcomeProduced(r) ==
    \/ run[r].inner.tag = "Ok"
    \/ /\ run[r].inner.tag = "Err"
       /\ run[r].inner.stage \in {"find_core_created", "find_extrinsic_success"}

\* C8: the node's answers come in the order pool, block, events, and an
\* outcome is produced only after all three, with the transaction
\* submitted.
C8_OutcomeAfterInclusion ==
    \A r \in Runs :
        /\ \/ IsPrefix(run[r].milestones, <<"pool", "in_block", "events">>)
           \/ run[r].milestones \in { <<"pool_rejected">>,
                                      <<"pool", "in_block_failed">>,
                                      <<"pool", "in_block", "events_failed">> }
        /\ (OutcomeProduced(r) \/ run[r].result = Ok
              \/ Did(r, "find_core_created"))
               => /\ run[r].milestones = <<"pool", "in_block", "events">>
                  /\ Submitted(r)

C8_Witness ==
    /\ \E r \in Runs : run[r].inner.tag = "Ok"
    /\ \E r \in Runs : /\ run[r].inner.tag = "Err"
                       /\ run[r].inner.stage = "find_extrinsic_success"

NodeFailures == {"pool_rejected", "in_block_failed", "events_failed"}

\* C9: when the pool rejects the transaction, the block wait fails or the
\* event retrieval fails, submit_wait_inblock_and_get_event returns the
\* error of that step without scanning any events, and sign_and_submit
\* returns it as an error.
C9_SubmissionError ==
    \A r \in Runs :
        Range(run[r].milestones) \cap NodeFailures # {} =>
            /\ run[r].pc \in {"return", "done"}
            /\ run[r].inner.tag = "Err"
            /\ run[r].inner.stage \in
                   {"submit_and_watch", "wait_for_in_block", "fetch_events"}
            /\ ~Did(r, "find_core_created")
            /\ ~Did(r, "find_extrinsic_success")
            /\ run[r].events = <<>>
            /\ run[r].pc = "done" =>
                   run[r].result = SaturnError(run[r].inner.stage,
                                               run[r].inner.error)

C9_Witness ==
    /\ \E r \in Runs : run[r].pc = "done" /\ run[r].milestones = <<"pool_rejected">>
    /\ \E r \in Runs : /\ run[r].pc = "done"
                       /\ "events_failed" \in Range(run[r].milestones)

\* C10: when the events retrieved hold a CoreCreated and no
\* ExtrinsicSuccess, submit_wait_inblock_and_get_event returns an error
\* ("ExtrinsicSuccess not found in events" when every event met decodes)
\* and sign_and_submit returns an error.
C10_SuccessMarkerMissing ==
    \A r \in Runs :
        ( /\ "events" \in Range(run[r].milestones)
          /\ "CoreCreated" \in Range(run[r].events)
          /\ "ExtrinsicSuccess" \notin Range(run[r].events)
          /\ run[r].pc \in {"return", "done"} )
            => /\ run[r].inner.tag = "Err"
               /\ "Undecodable" \notin Range(run[r].events)
                      => run[r].inner.error = "ExtrinsicSuccess not found in events"
               /\ run[r].pc = "done" => run[r].result.tag = "Err"

C10_Witness ==
    \E r \in Runs : run[r].pc = "done" /\ run[r].events = <<"CoreCreated">>

\* The number a byte string stands for, most significant byte first; -1
\* for a number above 2^31 - 1.
RECURSIVE BeValue(_)
BeValue(bytes) ==
    IF bytes = <<>> THEN 0
    ELSE LET front == BeValue(SubSeq(bytes, 1, Len(bytes) - 1))
         IN  IF front = -1 \/ front > 8388607 THEN -1
             ELSE 256 * front + bytes[Len(bytes)]

\* `str` is "0x" followed by the hex digits of exactly the bytes `bytes`.
IsHexOf(str, bytes) ==
    /\ Len(str) = 2 + 2 * Len(bytes)
    /\ SubSeq(str, 1, 2) = <<"0", "x">>
    /\ LET d == HexDecode(SubSeq(str, 3, Len(str)))
       IN  d.ok /\ d.bytes = bytes

\* `str` is "0x" followed by `width` bytes in hex that stand for `n`, most
\* significant byte first.
IsBeHex(str, width, n) ==
    /\ Len(str) = 2 + 2 * width
    /\ SubSeq(str, 1, 2) = <<"0", "x">>
    /\ LET d == HexDecode(SubSeq(str, 3, Len(str)))
       IN  d.ok /\ BeValue(d.bytes) = n

\* C11: in the payload that generate_payload returns, the address is the
\* input address verbatim, the method is the hex of the call bytes
\* unchanged, the nonce is the 8-byte big-endian hex of the account nonce
\* and specVersion and transactionVersion are the 4-byte big-endian hex of
\* the runtime versions (spec version 100 gives 0x00000064, nonce 5 gives
\* 0x0000000000000005, call bytes 0x1234 give method 0x1234).
C11_PayloadFields ==
    \A r \in Runs :
        Succeeded(r, "generate_payload") =>
            LET p == run[r].payload
            IN  /\ p.address = run[r].address
                /\ IsHexOf(p.method, run[r].call_data)
                /\ IsBeHex(p.nonce, 8, run[r].account_nonce)
                /\ IsBeHex(p.specVersion, 4, api.spec_version)
                /\ IsBeHex(p.transactionVersion, 4, api.transaction_version)
                /\ api.spec_version = 100 =>
                      p.specVersion = <<"0", "x", "0", "0", "0", "0",
                                        "0", "0", "6", "4">>
                /\ run[r].account_nonce = 5 =>
                      p.nonce = <<"0", "x", "0", "0", "0", "0", "0", "0", "0", "0",
                                  "0", "0", "0", "0", "0", "0", "0", "5">>
                /\ generate_payload(api, run[r].address, run[r].account_nonce,
                                    <<18, 52>>).method
                      = <<"0", "x", "1", "2", "3", "4">>

C11_Witness ==
    \E r \in Runs :
        /\ Succeeded(r, "generate_payload")
        /\ run[r].account_nonce = 5
        /\ api.spec_version = 100
        /\ run[r].address = BobAddress

\* C12: the signedExtensions list of the payload holds exactly the
\* identifiers the runtime metadata declares, in the declared order: none
\* added, dropped, duplicated or reordered (metadata declaring CheckNonce,
\* CheckMortality, ChargeTransactionPayment gives that list).
C12_SignedExtensions ==
    \A r \in Runs :
        Succeeded(r, "generate_payload") =>
            LET ext      == run[r].payload.signedExtensions
                declared == api.signed_extensions
            IN  /\ Len(ext) = Len(declared)
                /\ \A i \in 1..Len(declared) : ext[i] = declared[i]
                /\ declared = <<"CheckNonce", "CheckMortality",
                                "ChargeTransactionPayment">>
                      => ext = <<"CheckNonce", "CheckMortality",
                                 "ChargeTransactionPayment">>

C12_Witness ==
    \E r \in Runs :
        /\ Succeeded(r, "generate_payload")
        /\ run[r].payload.signedExtensions
              = <<"CheckNonce", "CheckMortality", "ChargeTransactionPayment">>

HexDigits ==
    {"0", "1", "2", "3", "4", "5", "6", "7", "8", "9",
     "a", "b", "c", "d", "e", "f", "A", "B", "C", "D", "E", "F"}

\* The text is an even number of hex digits.
EvenLengthHex(str) ==
    /\ Len(str) % 2 = 0
    /\ \A i \in 1..Len(str) : str[i] \in HexDigits

\* C13: for every signature string, with its first two characters
\* stripped: when the remainder is an even-length hex string, hex decoding
\* succeeds and the run goes on to scheme decoding; when the remainder has
\* odd length or holds a non-hex character, sign_and_submit returns the
\* error of the hex decoding and no transaction is built or submitted.
\* (Strings of fewer than two characters are left out here.)
C13_HexDecoding ==
    \A r \in Runs :
        (Did(r, "hex_decode") /\ Len(run[r].signature.signature) >= 2) =>
            LET signature == run[r].signature.signature
                remainder == SubSeq(signature, 3, Len(signature))
            IN  IF EvenLengthHex(remainder)
                THEN /\ Succeeded(r, "hex_decode")
                     /\ \/ run[r].pc = "multi_signature_decode"
                        \/ Did(r, "multi_signature_decode")
                ELSE /\ run[r].pc = "done"
                     /\ run[r].result.tag = "Err"
                     /\ run[r].result.stage = "hex_decode"
                     /\ ~Did(r, "create_partial_signed")
                     /\ ~Submitted(r)

\* C14: each Call that create_core returns is consumed exactly once:
\* sign_and_submit is run at most once for a given Call.
C14_CallConsumedOnce ==
    \A r, q \in Runs :
        (r # q /\ run[r].pc # "idle" /\ run[q].pc # "idle")
            => run[r].call # run[q].call

\* C15: when the resolved response carries a signature string of fewer
\* than two characters (the empty string included), sign_and_submit returns
\* a signature hex/format error value to the caller and no transaction is
\* built or submitted.
C15_ShortSignature ==
    \A r \in Runs :
        ( /\ Did(r, "hex_decode")
          /\ Len(run[r].signature.signature) < 2 )
            => /\ run[r].pc = "done"
               /\ run[r].result.tag = "Err"
               /\ run[r].result.stage \in {"hex_decode", "multi_signature_decode"}
               /\ ~Did(r, "create_partial_signed")
               /\ ~Submitted(r)

\* What the collaborators answered to the run after the signer: whether
\* the library built the partial extrinsic, the milestones of the
\* submission and the events of the block.
PartialFailed(r) ==
    run[r].result.tag = "Err" /\ run[r].result.stage = "create_partial_signed"

SameAnswers(r, q) ==
    /\ PartialFailed(r) <=> PartialFailed(q)
    /\ run[r].milestones = run[q].milestones
    /\ run[r].events = run[q].events

\* C16: immediate and deferred signer results are treated the same.  A
\* value the signer returns directly is awaited as a promise resolved with
\* that value (never pending, never rejected); and for every value v, the
\* run whose signer returned v directly and the run whose signer returned
\* a pending promise later resolved to v go through the same stages and
\* end with the same result, the node and the library answering alike.
C16_ImmediateAsDeferred ==
    /\ (Did(ImmediateRun, "call_signer")
          /\ run[ImmediateRun].promise.state # "thrown")
            => run[ImmediateRun].promise.state = "resolved"
    /\ ( /\ run[ImmediateRun].promise.state = "resolved"
         /\ run[DeferredRun].promise.state = "resolved"
         /\ run[ImmediateRun].promise.value = run[DeferredRun].promise.value
         /\ run[ImmediateRun].pc = "done"
         /\ run[DeferredRun].pc = "done"
         /\ SameAnswers(ImmediateRun, DeferredRun) )
            => /\ run[ImmediateRun].trace = run[DeferredRun].trace
               /\ run[ImmediateRun].result = run[DeferredRun].result

C16_Witness ==
    /\ run[ImmediateRun].promise.state = "resolved"
    /\ run[DeferredRun].promise.state = "resolved"
    /\ run[ImmediateRun].promise.value = run[DeferredRun].promise.value
    /\ run[ImmediateRun].pc = "done"
    /\ run[DeferredRun].pc = "done"
    /\ SameAnswers(ImmediateRun, DeferredRun)
    /\ run[ImmediateRun].result = Ok
    /\ run[DeferredRun].result = Ok

\* The value is a Signature Response whose string, less its two-byte
\* prefix, is hex for the bytes of a signature of a known scheme.
DecodableSignature(v) ==
    /\ DeserializeSignatureResponse(v).ok
    /\ SliceFrom(v.signature, 2).ok
    /\ HexDecode(SliceFrom(v.signature, 2).str).ok
    /\ MultiSignatureDecode(HexDecode(SliceFrom(v.signature, 2).str).bytes).ok

\* C17: sign_and_submit returns Ok only in a run where the signer resolved
\* with a decodable signature, the signed transaction was accepted by the
\* pool and observed in a block, the events of that block were retrieved,
\* and those events hold both a CoreCreated and an ExtrinsicSuccess event.
C17_OkOnlyAfterEverything ==
    \A r \in Runs :
        run[r].result = Ok =>
            /\ run[r].promise.state = "resolved"
            /\ DecodableSignature(run[r].promise.value)
            /\ Submitted(r)
            /\ run[r].milestones = <<"pool", "in_block", "events">>
            /\ "CoreCreated" \in Range(run[r].events)
            /\ "ExtrinsicSuccess" \in Range(run[r].events)

C17_Witness ==
    \E r \in Runs : run[r].pc = "done" /\ run[r].result = Ok

\* C18: every run of sign_and_submit eventually returns, Ok or an error,
\* provided each external await it reaches is answered in the end.
C18_EveryRunReturns ==
    \A r \in Runs :
        (run[r].pc # "idle") ~> (run[r].result.tag \in {"Ok", "Err"})

\* C19: the proportions create_core places in the call are
\* min(input, 1000000000): inputs up to one billion parts pass through
\* unchanged, larger inputs are clamped to one billion, and the call never
\* carries a proportion above the denominator.
C19_ProportionsClamped ==
    \A i \in DOMAIN calls :
        LET in     == calls[i].args
            fields == calls[i].call.fields
        IN  /\ in.minimum_support <= 1000000000
                  => fields.minimum_support = in.minimum_support
            /\ in.minimum_support > 1000000000
                  => fields.minimum_support = 1000000000
            /\ in.required_approval <= 1000000000
                  => fields.required_approval = in.required_approval
            /\ in.required_approval > 1000000000
                  => fields.required_approval = 1000000000
            /\ fields.minimum_support <= 1000000000
            /\ fields.required_approval <= 1000000000

C19_Witness ==
    \E i \in DOMAIN calls :
        /\ calls[i].args.minimum_support = 2147483647
        /\ calls[i].call.fields.minimum_support = 1000000000
        /\ calls[i].args.required_approval = 999999999
        /\ calls[i].call.fields.required_approval = 999999999

=============================================================================
